---- MODULE Spec2Model ----
(***************************************************************************)
(* Model of networkparser.py: the conversion of a MATSim network file into *)
(* an adjacency structure and three matrices (parseNetwork and the         *)
(* functions it calls).  The document has the layout of a network file: a  *)
(* "nodes" group followed by a "links" group.  The records of a group are  *)
(* read one at a time, as the for-loops of parseNodes and parseLinks read  *)
(* them; nodeBranch and linkBranch hold the records read so far.           *)
(***************************************************************************)
EXTENDS Integers, Sequences, FiniteSets, TLC

VARIABLES pc, err, nodeBranch, linkBranch, nodes, indexer, links, roads,
          testTxt, traveltimes, capacities, locations, archive

vars == <<pc, err, nodeBranch, linkBranch, nodes, indexer, links, roads,
          testTxt, traveltimes, capacities, locations, archive>>

\* ---- bounds -------------------------------------------------------------
MaxNodes == 2
MaxLinks == 2

\* ---- numbers ------------------------------------------------------------
\* A float is modelled as an exact fraction <<numerator, denominator>> in
\* lowest terms with a positive denominator.
Abs(n) == IF n < 0 THEN -n ELSE n

RECURSIVE GCD(_, _)
GCD(a, b) == IF b = 0 THEN a ELSE GCD(b, a % b)

Frac(n, d) ==
    LET g == GCD(Abs(n), Abs(d))
        s == IF d < 0 THEN -1 ELSE 1
    IN  <<(s * n) \div g, (s * d) \div g>>

Zero == <<0, 1>>

Mul(a, b) == Frac(a[1] * b[1], a[2] * b[2])

Less(a, b) == a[1] * b[2] < b[1] * a[2]

\* float(a)/float(b) for b # 0
Div(a, b) == Frac(a[1] * b[2], a[2] * b[1])

\* float(s): the value of a numeric attribute string
float(s) ==
    CASE s = "0"      -> <<0, 1>>
      [] s = "0.0"    -> <<0, 1>>
      [] s = "0.005"  -> <<1, 200>>
      [] s = "0.01"   -> <<1, 100>>
      [] s = "5"      -> <<5, 1>>
      [] s = "5.0"    -> <<5, 1>>
      [] s = "10.0"   -> <<10, 1>>
      [] s = "5000.0" -> <<5000, 1>>
      [] s = "-3"     -> <<-3, 1>>
      [] s = "-3000.0" -> <<-3000, 1>>
      [] s = "2"      -> <<2, 1>>
      [] s = "4"      -> <<4, 1>>
      [] s = "50"     -> <<50, 1>>
      [] s = "100"    -> <<100, 1>>
      [] s = "1.5"    -> <<3, 2>>
      [] s = "7"      -> <<7, 1>>

\* str(x) of a float: Python prints the shortest repr, always with a
\* fractional part
FloatReprs == {"0.0", "5.0", "10.0", "5000.0", "-3000.0"}

str(x) == CHOOSE s \in FloatReprs : float(s) = x

\* ---- input records ------------------------------------------------------
\* node elements of the document (two of them share the id "A"); the last
\* kind lacks the y attribute
NodeRecords ==
    { [id |-> "A", x |-> "1.5", y |-> "7"],
      [id |-> "B", x |-> "7",   y |-> "-3"],
      [id |-> "A", x |-> "7",   y |-> "-3"],
      [id |-> "C", x |-> "0",   y |-> "1.5"],
      [id |-> "A", x |-> "1.5"] }

\* link elements of the document: <<from, to>> and
\* <<freespeed, capacity, length>>; "Z" is the id of no node; the last kind
\* lacks the capacity attribute
KnownEnds   == {<<"A", "A">>, <<"A", "B">>, <<"B", "A">>}
UnknownEnds == {<<"A", "Z">>, <<"Z", "A">>}
LinkValues  == { <<"2", "100", "0.005">>, <<"4", "50", "0.01">>,
                 <<"2", "50", "0">>, <<"0", "100", "5">>,
                 <<"0", "50", "0">>, <<"4", "100", "5">> }

LinkRecord(e, v) ==
    [from |-> e[1], to |-> e[2], freespeed |-> v[1], capacity |-> v[2],
     length |-> v[3]]

LinkRecords ==
    {LinkRecord(e, v) : e \in KnownEnds, v \in LinkValues}
    \cup {LinkRecord(e, <<"2", "100", "0.005">>) : e \in UnknownEnds}
    \cup {[from |-> "A", to |-> "B", freespeed |-> "2", length |-> "5"]}

NodeAttrs == {"id", "x", "y"}
LinkAttrs == {"from", "to", "capacity", "freespeed", "length"}

\* ---- values -------------------------------------------------------------
nodetuple(id, long, lat) == [id |-> id, long |-> long, lat |-> lat]

link(start, finish, capacity, speed, length) ==
    [start |-> start, finish |-> finish, capacity |-> capacity,
     speed |-> speed, length |-> length]

\* an unbound name, an absent file
None == << >>

Range(n) == 0 .. (n - 1)

\* d[key] = v on a dict
Put(d, key, v) ==
    [k \in (DOMAIN d) \cup {key} |-> IF k = key THEN v ELSE d[k]]

\* dict(...) over the first n pairs of zip(indexes, nodes)
RECURSIVE DictOfPairs(_, _)
DictOfPairs(ns, n) ==
    IF n = 0 THEN << >>
    ELSE Put(DictOfPairs(ns, n - 1), ns[n].id, n - 1)

\* the indexes start at 1
createNodeIndexerFromOne(ns) ==
    [i \in DOMAIN DictOfPairs(ns, Len(ns)) |-> DictOfPairs(ns, Len(ns))[i] + 1]

\* the first record with an id keeps the index
createNodeIndexerFirstWins(ns) ==
    [i \in {ns[k].id : k \in 1 .. Len(ns)} |->
        (CHOOSE k \in 1 .. Len(ns) :
            ns[k].id = i /\ \A q \in 1 .. (k - 1) : ns[q].id # i) - 1]

createNodeIndexer(ns) == DictOfPairs(ns, Len(ns))

\* the comparison with .01 is not strict
CorrectedLengthInclusive(piece) ==
    IF ~Less(<<1, 100>>, float(piece.length)) /\ Less(Zero, float(piece.length))
    THEN str(Mul(float(piece.length), <<1000, 1>>))
    ELSE piece.length

\* the length parseLinks stores for a link element
CorrectedLength(piece) ==
    IF Less(float(piece.length), <<1, 100>>) /\ Less(Zero, float(piece.length))
    THEN str(Mul(float(piece.length), <<1000, 1>>))
    ELSE piece.length

zeros(n) == [p \in Range(n) \X Range(n) |-> Zero]

\* the loop of createTravelTimeMatrix over the first k links; ok is FALSE
\* once a division raised
RECURSIVE TravelTimeLoop(_, _, _, _)
TravelTimeLoop(n, ls, ix, k) ==
    IF k = 0 THEN [ok |-> TRUE, matrix |-> zeros(n)]
    ELSE LET prev == TravelTimeLoop(n, ls, ix, k - 1)
             l    == ls[k]
         IN  IF ~prev.ok THEN prev
             ELSE IF float(l.speed) = Zero
                  THEN [ok |-> FALSE, matrix |-> prev.matrix]
                  ELSE [ok |-> TRUE,
                        matrix |-> [prev.matrix EXCEPT
                                      ![<<ix[l.start], ix[l.finish]>>] =
                                          Div(float(l.length), float(l.speed))]]

\* the cell is addressed [end][start]
createTravelTimeMatrixTransposed(ns, ls, ix) ==
    LET r == TravelTimeLoop(Len(ns), ls, ix, Len(ls))
    IN  [ok |-> r.ok,
         matrix |-> [p \in DOMAIN r.matrix |-> r.matrix[<<p[2], p[1]>>]]]

\* a zero free speed leaves the cell alone and the run goes on
createTravelTimeMatrixSkipsZero(ns, ls, ix) ==
    LET moving == SelectSeq(ls, LAMBDA l : float(l.speed) # Zero)
    IN  TravelTimeLoop(Len(ns), moving, ix, Len(moving))

createTravelTimeMatrix(ns, ls, ix) == TravelTimeLoop(Len(ns), ls, ix, Len(ls))

RECURSIVE CapacityLoop(_, _, _, _)
CapacityLoop(n, ls, ix, k) ==
    IF k = 0 THEN zeros(n)
    ELSE [CapacityLoop(n, ls, ix, k - 1) EXCEPT
            ![<<ix[ls[k].start], ix[ls[k].finish]>>] = float(ls[k].capacity)]

\* the first link of a pair keeps the cell
createCapacityMatrixFirstWins(ns, ls, ix) ==
    LET rev == [k \in 1 .. Len(ls) |-> ls[Len(ls) + 1 - k]]
    IN  CapacityLoop(Len(ns), rev, ix, Len(rev))

createCapacityMatrix(ns, ls, ix) == CapacityLoop(Len(ns), ls, ix, Len(ls))

\* x comes first
createNodeLocationsMatrixXFirst(ns) ==
    [p \in Range(Len(ns)) \X {0, 1} |->
        IF p[2] = 0 THEN float(ns[p[1] + 1].long) ELSE float(ns[p[1] + 1].lat)]

createNodeLocationsMatrix(ns) ==
    [p \in Range(Len(ns)) \X {0, 1} |->
        IF p[2] = 0 THEN float(ns[p[1] + 1].lat) ELSE float(ns[p[1] + 1].long)]

\* ---- the run ------------------------------------------------------------
\* a neighbour already in the entry is not appended again
appendNeighbourOnce(ls, ix, road) ==
    IF road.start \in DOMAIN ix /\ road.finish \in DOMAIN ix
    THEN [ok |-> TRUE,
          links |-> [ls EXCEPT ![ix[road.start]] =
                        IF \E n \in 1 .. Len(@) : @[n] = ix[road.finish]
                        THEN @ ELSE Append(@, ix[road.finish])]]
    ELSE [ok |-> FALSE, links |-> ls]

\* a link with an unknown id is dropped and the run goes on
appendNeighbourDropsUnknown(ls, ix, road) ==
    IF road.start \in DOMAIN ix /\ road.finish \in DOMAIN ix
    THEN [ok |-> TRUE,
          links |-> [ls EXCEPT ![ix[road.start]] = Append(@, ix[road.finish])]]
    ELSE [ok |-> TRUE, links |-> ls]

\* links[indexer[road.start]].append(indexer[road.finish]); ok is FALSE when a
\* lookup in the indexer raised
appendNeighbour(ls, ix, road) ==
    IF road.start \in DOMAIN ix /\ road.finish \in DOMAIN ix
    THEN [ok |-> TRUE,
          links |-> [ls EXCEPT ![ix[road.start]] = Append(@, ix[road.finish])]]
    ELSE [ok |-> FALSE, links |-> ls]

\* pc is the statement of parseNetwork the run is at (or raised in); err is
\* the exception that ended the run
Init ==
    /\ pc = "start"
    /\ err = "none"
    /\ nodeBranch = << >>
    /\ linkBranch = << >>
    /\ nodes = << >>
    /\ indexer = None
    /\ links = None
    /\ roads = << >>
    /\ testTxt = {}
    /\ traveltimes = None
    /\ capacities = None
    /\ locations = None
    /\ archive = {}

At(l) == pc = l /\ err = "none"

Raise(e) == err' = e /\ UNCHANGED pc

\* ET.parse(filename) reads the document
ETParse ==
    /\ At("start")
    /\ pc' = "parseNodes"
    /\ UNCHANGED <<err, nodeBranch, linkBranch, nodes, indexer, links, roads,
                   testTxt, traveltimes, capacities, locations, archive>>

\* ET.parse(filename) cannot read the file
ETParseFails ==
    /\ At("start")
    /\ Raise("IOError")
    /\ UNCHANGED <<nodeBranch, linkBranch, nodes, indexer, links, roads,
                   testTxt, traveltimes, capacities, locations, archive>>

\* one iteration of the loop of parseNodes
ParseNodesStep(node) ==
    /\ At("parseNodes")
    /\ Len(nodeBranch) < MaxNodes
    /\ nodeBranch' = Append(nodeBranch, node)
    /\ IF NodeAttrs \subseteq DOMAIN node
       THEN /\ nodes' = Append(nodes, nodetuple(node.id, node.x, node.y))
            /\ UNCHANGED <<pc, err>>
       ELSE /\ Raise("KeyError")
            /\ UNCHANGED nodes
    /\ UNCHANGED <<linkBranch, indexer, links, roads, testTxt, traveltimes,
                   capacities, locations, archive>>

\* parseNodes returns; the rest of the "nodes" child
NodesChild ==
    /\ At("parseNodes")
    /\ indexer' = createNodeIndexer(nodes)
    /\ pc' = "linksChild"
    /\ UNCHANGED <<err, nodeBranch, linkBranch, nodes, links, roads, testTxt,
                   traveltimes, capacities, locations, archive>>

\* the "links" child up to the call of parseLinks
LinksChild ==
    /\ At("linksChild")
    /\ links' = [i \in Range(Len(nodes)) |-> << >>]
    /\ pc' = "parseLinks"
    /\ UNCHANGED <<err, nodeBranch, linkBranch, nodes, indexer, roads, testTxt,
                   traveltimes, capacities, locations, archive>>

\* one iteration of the loop of parseLinks
ParseLinksStep(piece) ==
    /\ At("parseLinks")
    /\ Len(linkBranch) < MaxLinks
    /\ linkBranch' = Append(linkBranch, piece)
    /\ IF ~(LinkAttrs \subseteq DOMAIN piece)
       THEN /\ Raise("KeyError")
            /\ UNCHANGED <<roads, links>>
       ELSE LET road == link(piece.from, piece.to, piece.capacity,
                             piece.freespeed, CorrectedLength(piece))
                r    == appendNeighbour(links, indexer, road)
            IN  /\ roads' = Append(roads, road)
                /\ links' = r.links
                /\ IF r.ok THEN UNCHANGED <<pc, err>> ELSE Raise("KeyError")
    /\ UNCHANGED <<nodeBranch, nodes, indexer, testTxt, traveltimes,
                   capacities, locations, archive>>

\* parseLinks returns
ParseLinksReturn ==
    /\ At("parseLinks")
    /\ pc' = "dump"
    /\ UNCHANGED <<err, nodeBranch, linkBranch, nodes, indexer, links, roads,
                   testTxt, traveltimes, capacities, locations, archive>>

\* test.txt is opened for writing and receives str(element) of every entry
WriteDump ==
    /\ At("dump")
    /\ testTxt' = {links}
    /\ pc' = "traveltimes"
    /\ UNCHANGED <<err, nodeBranch, linkBranch, nodes, indexer, links, roads,
                   traveltimes, capacities, locations, archive>>

\* test.txt cannot be opened
WriteDumpFails ==
    /\ At("dump")
    /\ Raise("IOError")
    /\ UNCHANGED <<nodeBranch, linkBranch, nodes, indexer, links, roads,
                   testTxt, traveltimes, capacities, locations, archive>>

BuildTravelTimes ==
    /\ At("traveltimes")
    /\ LET r == createTravelTimeMatrix(nodes, roads, indexer)
       IN  IF r.ok
           THEN /\ traveltimes' = r.matrix
                /\ pc' = "capacities"
                /\ UNCHANGED err
           ELSE /\ Raise("ZeroDivisionError")
                /\ UNCHANGED traveltimes
    /\ UNCHANGED <<nodeBranch, linkBranch, nodes, indexer, links, roads,
                   testTxt, capacities, locations, archive>>

BuildCapacities ==
    /\ At("capacities")
    /\ capacities' = createCapacityMatrix(nodes, roads, indexer)
    /\ pc' = "locations"
    /\ UNCHANGED <<err, nodeBranch, linkBranch, nodes, indexer, links, roads,
                   testTxt, traveltimes, locations, archive>>

BuildLocations ==
    /\ At("locations")
    /\ locations' = createNodeLocationsMatrix(nodes)
    /\ pc' = "savemat"
    /\ UNCHANGED <<err, nodeBranch, linkBranch, nodes, indexer, links, roads,
                   testTxt, traveltimes, capacities, archive>>

SaveMat ==
    /\ At("savemat")
    /\ archive' = {[RoadGraph |-> links, CapacityMatrix |-> capacities,
                    TravelTimes |-> traveltimes, Locations |-> locations]}
    /\ pc' = "done"
    /\ UNCHANGED <<err, nodeBranch, linkBranch, nodes, indexer, links, roads,
                   testTxt, traveltimes, capacities, locations>>

\* the archive cannot be written
SaveMatFails ==
    /\ At("savemat")
    /\ Raise("IOError")
    /\ UNCHANGED <<nodeBranch, linkBranch, nodes, indexer, links, roads,
                   testTxt, traveltimes, capacities, locations, archive>>

Next ==
    \/ ETParse
    \/ ETParseFails
    \/ \E node \in NodeRecords : ParseNodesStep(node)
    \/ NodesChild
    \/ LinksChild
    \/ \E piece \in LinkRecords : ParseLinksStep(piece)
    \/ ParseLinksReturn
    \/ WriteDump
    \/ WriteDumpFails
    \/ BuildTravelTimes
    \/ BuildCapacities
    \/ BuildLocations
    \/ SaveMat
    \/ SaveMatFails

Spec == Init /\ [][Next]_vars

\* ---- properties ---------------------------------------------------------
Done == pc = "done"

\* the index map exists from the end of the "nodes" child on
IndexerBuilt == pc \notin {"start", "parseNodes"}

NodeCount == Len(nodeBranch)

DistinctIds ==
    \A a, b \in 1 .. Len(nodes) : nodes[a].id = nodes[b].id => a = b

\* C1: with pairwise distinct node ids the index map is a bijection from the
\* node ids onto 0..N-1, N the number of node records, and maps the k-th
\* node record (counting from 0) to k.
C1_IndexMapBijection ==
    (IndexerBuilt /\ DistinctIds) =>
        /\ Len(nodes) = NodeCount
        /\ DOMAIN indexer = {nodeBranch[k].id : k \in 1 .. NodeCount}
        /\ {indexer[i] : i \in DOMAIN indexer} = Range(NodeCount)
        /\ \A i, j \in DOMAIN indexer : indexer[i] = indexer[j] => i = j
        /\ \A k \in 1 .. NodeCount : indexer[nodeBranch[k].id] = k - 1

C1_Witness ==
    /\ IndexerBuilt
    /\ DistinctIds
    /\ NodeCount >= 2
    /\ nodeBranch[1].id = "B"

InCorrectionRange(x) == Less(Zero, x) /\ Less(x, <<1, 100>>)

\* the unit-correction rule on a value
Scaled(x) == IF InCorrectionRange(x) THEN Mul(<<1000, 1>>, x) ELSE x

\* C2: the stored length of a link is 1000 times the original length exactly
\* when 0 < original < 0.01 and is the original length, unchanged, in every
\* other case; the stored links are as many as the link records and in the
\* same order.
C2_UnitCorrection ==
    /\ Len(roads) <= Len(linkBranch)
    /\ (pc \notin {"start", "parseNodes", "linksChild", "parseLinks"}
           => Len(roads) = Len(linkBranch))
    /\ \A k \in 1 .. Len(roads) :
          LET orig == linkBranch[k].length
          IN  /\ roads[k].start = linkBranch[k].from
              /\ roads[k].finish = linkBranch[k].to
              /\ roads[k].capacity = linkBranch[k].capacity
              /\ roads[k].speed = linkBranch[k].freespeed
              /\ IF InCorrectionRange(float(orig))
                 THEN float(roads[k].length) = Mul(<<1000, 1>>, float(orig))
                 ELSE roads[k].length = orig

C2_Witness ==
    /\ pc = "dump"
    /\ Len(roads) >= 2
    /\ linkBranch[1].length = "0.005" /\ roads[1].length = "5.0"
    /\ linkBranch[2].length = "0.01" /\ roads[2].length = "0.01"

Max(S) == CHOOSE m \in S : \A x \in S : x <= m

\* the link records from the node with index i to the node with index j
LinksFromTo(i, j) ==
    {k \in 1 .. Len(linkBranch) :
        indexer[linkBranch[k].from] = i /\ indexer[linkBranch[k].to] = j}

SquareIndex == Range(NodeCount) \X Range(NodeCount)

\* C3: after a successful run TravelTimes[i][j] is 0 when no link goes from
\* index i to index j, and otherwise is corrected length / free speed of the
\* last link i->j in input order.
C3_TravelTimes ==
    Done =>
        /\ archive # {}
        /\ \A a \in archive :
              /\ DOMAIN a.TravelTimes = SquareIndex
              /\ \A p \in SquareIndex :
                    LET S == LinksFromTo(p[1], p[2])
                    IN  IF S = {}
                        THEN a.TravelTimes[p] = Zero
                        ELSE a.TravelTimes[p] =
                                Div(Scaled(float(linkBranch[Max(S)].length)),
                                    float(linkBranch[Max(S)].freespeed))

C3_Witness ==
    /\ Done
    /\ NodeCount >= 2
    /\ Len(linkBranch) = 2
    /\ linkBranch[1].from = "A" /\ linkBranch[1].to = "B"
    /\ linkBranch[2].from = "A" /\ linkBranch[2].to = "B"
    /\ linkBranch[1].length = "0.01" /\ linkBranch[1].freespeed = "4"
    /\ linkBranch[2].length = "0.005" /\ linkBranch[2].freespeed = "2"
    /\ \E a \in archive : a.TravelTimes[<<indexer["A"], indexer["B"]>>] = <<5, 2>>

\* C4: after a successful run CapacityMatrix[i][j] is the capacity of the last
\* link from index i to index j in input order, and 0 when there is no such
\* link.
C4_CapacityMatrix ==
    Done =>
        /\ archive # {}
        /\ \A a \in archive :
              /\ DOMAIN a.CapacityMatrix = SquareIndex
              /\ \A p \in SquareIndex :
                    LET S == LinksFromTo(p[1], p[2])
                    IN  IF S = {}
                        THEN a.CapacityMatrix[p] = Zero
                        ELSE a.CapacityMatrix[p] =
                                float(linkBranch[Max(S)].capacity)

C4_Witness ==
    /\ Done
    /\ Len(linkBranch) = 2
    /\ linkBranch[1].from = linkBranch[2].from
    /\ linkBranch[1].to = linkBranch[2].to
    /\ linkBranch[1].capacity = "100"
    /\ linkBranch[2].capacity = "50"
    /\ \E a \in archive, p \in SquareIndex : a.CapacityMatrix[p] = <<50, 1>>

\* idx(to) of the first k link records whose idx(from) is i, in input order
RECURSIVE Neighbours(_, _)
Neighbours(i, k) ==
    IF k = 0 THEN << >>
    ELSE IF indexer[linkBranch[k].from] = i
         THEN Append(Neighbours(i, k - 1), indexer[linkBranch[k].to])
         ELSE Neighbours(i, k - 1)

RECURSIVE EntryCount(_, _)
EntryCount(g, n) == IF n = 0 THEN 0 ELSE Len(g[n - 1]) + EntryCount(g, n - 1)

\* C5: after a successful run RoadGraph has one entry per node index; entry i
\* is the sequence, in input order, of idx(to) of the link records with
\* idx(from) = i, repeated links included; the entries are as many as the
\* link records and each is in 0..N-1.
C5_RoadGraph ==
    Done =>
        /\ archive # {}
        /\ \A a \in archive :
              /\ DOMAIN a.RoadGraph = Range(NodeCount)
              /\ \A i \in Range(NodeCount) :
                    /\ a.RoadGraph[i] = Neighbours(i, Len(linkBranch))
                    /\ \A n \in 1 .. Len(a.RoadGraph[i]) :
                          a.RoadGraph[i][n] \in Range(NodeCount)
              /\ EntryCount(a.RoadGraph, NodeCount) = Len(linkBranch)

C5_Witness ==
    /\ Done
    /\ NodeCount >= 2
    /\ Len(linkBranch) = 2
    /\ linkBranch[1].from = "A" /\ linkBranch[1].to = "B"
    /\ linkBranch[2].from = "A" /\ linkBranch[2].to = "B"
    /\ \E a \in archive :
          /\ Len(a.RoadGraph[indexer["A"]]) = 2
          /\ a.RoadGraph[indexer["B"]] = << >>

\* C6: after a successful run Locations has N rows and row i is [y, x] of the
\* node whose index-map value is i.
C6_Locations ==
    Done =>
        /\ archive # {}
        /\ \A a \in archive :
              /\ DOMAIN a.Locations = Range(NodeCount) \X {0, 1}
              /\ \A k \in 1 .. NodeCount :
                    indexer[nodeBranch[k].id] = k - 1 =>
                        /\ a.Locations[<<k - 1, 0>>] = float(nodeBranch[k].y)
                        /\ a.Locations[<<k - 1, 1>>] = float(nodeBranch[k].x)

C6_Witness ==
    /\ Done
    /\ NodeCount >= 2
    /\ DistinctIds
    /\ \E a \in archive :
          /\ a.Locations[<<0, 0>>] = <<7, 1>>
          /\ a.Locations[<<0, 1>>] = <<3, 2>>
          /\ a.Locations[<<1, 0>>] = <<-3, 1>>

\* a link record whose from or to id is no key of the index map
UnknownRef(piece) ==
    /\ LinkAttrs \subseteq DOMAIN piece
    /\ piece.from \notin DOMAIN indexer \/ piece.to \notin DOMAIN indexer

\* C7: a link record with an unknown from or to id ends the run with a lookup
\* error at that record: it is the last record read, no adjacency entry is
\* appended for it, and no archive is produced.
C7_UnknownIdAborts ==
    \A k \in 1 .. Len(linkBranch) :
        UnknownRef(linkBranch[k]) =>
            /\ k = Len(linkBranch)
            /\ pc = "parseLinks"
            /\ err = "KeyError"
            /\ archive = {}
            /\ \A i \in Range(NodeCount) : links[i] = Neighbours(i, k - 1)

C7_Witness ==
    /\ Len(linkBranch) = 2
    /\ ~UnknownRef(linkBranch[1])
    /\ linkBranch[2].from \in DOMAIN indexer
    /\ linkBranch[2].to = "Z"
    /\ err = "KeyError"
    /\ EntryCount(links, NodeCount) = 1

\* C8: a run that ends with an error has written neither the archive nor the
\* debug dump.
C8_AllOrNothing ==
    err # "none" => testTxt = {} /\ archive = {}

ZeroSpeed == \E k \in 1 .. Len(roads) : float(roads[k].speed) = Zero

\* C9: with a parsed link of free speed zero, building the travel-time matrix
\* ends the run with a division-by-zero error whatever the link's length; no
\* travel-time matrix and no archive is produced.
C9_ZeroSpeedAborts ==
    ZeroSpeed =>
        /\ pc \in {"parseLinks", "dump", "traveltimes"}
        /\ traveltimes = None
        /\ archive = {}
        /\ (pc = "traveltimes" /\ err # "none") => err = "ZeroDivisionError"

C9_Witness ==
    /\ pc = "traveltimes"
    /\ err = "ZeroDivisionError"
    /\ Len(roads) = 2
    /\ roads[1].speed = "2"
    /\ roads[2].speed = "0" /\ roads[2].length = "0"

\* the 0-based position p holds a node record whose id comes again later
EarlierDuplicate(p) ==
    \E q \in (p + 2) .. Len(nodes) : nodes[q].id = nodes[p + 1].id

\* C10: with node records sharing an id the run does not fail for it: the
\* index map has one entry per id, the position of the last record with that
\* id; N is still the number of node records; links of that id go to the last
\* index, so the adjacency entry and the TravelTimes and CapacityMatrix row
\* and column of every earlier duplicate stay empty and zero.
C10_DuplicateIds ==
    (IndexerBuilt /\ ~DistinctIds) =>
        /\ DOMAIN indexer = {nodes[k].id : k \in 1 .. Len(nodes)}
        /\ \A k \in 1 .. Len(nodes) :
              indexer[nodes[k].id] =
                  Max({q \in 1 .. Len(nodes) : nodes[q].id = nodes[k].id}) - 1
        /\ pc = "linksChild" => err = "none"
        /\ pc # "linksChild" =>
              /\ DOMAIN links = Range(NodeCount)
              /\ \A p \in Range(NodeCount) : EarlierDuplicate(p) => links[p] = << >>
              /\ \A i \in Range(NodeCount) : \A n \in 1 .. Len(links[i]) :
                    ~EarlierDuplicate(links[i][n])
        /\ Done =>
              \A a \in archive :
                 /\ DOMAIN a.TravelTimes = SquareIndex
                 /\ DOMAIN a.CapacityMatrix = SquareIndex
                 /\ DOMAIN a.RoadGraph = Range(NodeCount)
                 /\ DOMAIN a.Locations = Range(NodeCount) \X {0, 1}
                 /\ \A p, q \in Range(NodeCount) :
                       EarlierDuplicate(p) =>
                           /\ a.RoadGraph[p] = << >>
                           /\ a.TravelTimes[<<p, q>>] = Zero
                           /\ a.TravelTimes[<<q, p>>] = Zero
                           /\ a.CapacityMatrix[<<p, q>>] = Zero
                           /\ a.CapacityMatrix[<<q, p>>] = Zero

C10_Witness ==
    /\ Done
    /\ NodeCount = 2
    /\ nodes[1].id = "A" /\ nodes[2].id = "A"
    /\ Len(linkBranch) >= 1
    /\ \E a \in archive :
          /\ a.RoadGraph = (0 :> << >> @@ 1 :> <<1>>)
          /\ a.CapacityMatrix[<<1, 1>>] # Zero
          /\ a.TravelTimes[<<1, 1>>] # Zero

====
